---- MODULE Spec2Model ----
(***************************************************************************)
(* Resolved dependencies of a SLSA v2alpha2 provenance:                    *)
(* pkg/chains/formats/slsa/v2alpha2/internal/resolved_dependencies.        *)
(*                                                                         *)
(* The package has no state of its own: TaskRun, PipelineRun and           *)
(* removeDuplicateResolvedDependencies are functions of their arguments.   *)
(* Each is an operator computed as the code computes it; the state machine *)
(* draws an argument, calls the function and keeps what it returned.       *)
(***************************************************************************)
EXTENDS Integers, Sequences, FiniteSets, TLC

VARIABLES
    pc,                     \* position of the caller
    resolvedDependencies,   \* argument of removeDuplicateResolvedDependencies
    out,                    \* what removeDuplicateResolvedDependencies returned
    again,                  \* what it returned when called on its own output
    tro,                    \* argument of TaskRun
    pro,                    \* argument of PipelineRun
    ret                     \* what TaskRun / PipelineRun returned

vars == <<pc, resolvedDependencies, out, again, tro, pro, ret>>

\* a nil pointer, a nil slice returned beside an error, a nil error
nil == [nil |-> TRUE]
\* a variable the specification at hand does not use
unused == [unused |-> TRUE]

---------------------------------------------------------------------------
(* Names of the resolved dependencies.                                     *)

pipelineConfigName == "pipeline"
taskConfigName == "task"
pipelineTaskConfigName == "pipelineTask"
inputResultName == "inputs/result"
pipelineResourceName == "pipelineResource"

---------------------------------------------------------------------------
(* Bounds and the values arguments are drawn from.                         *)

\* longest argument of removeDuplicateResolvedDependencies
MaxLen == 3

\* A digest set maps algorithm names to hex digests (common.DigestSet, a Go
\* map): a function whose domain is the set of algorithms present.
emptyDigest == <<>>
Digests == {emptyDigest, [a \in {"sha256"} |-> "x"], [a \in {"sha1", "sha256"} |-> "y"]}
URIs == {"", "a"}

\* the (URI, Digest) pairs: what a common.ProvenanceMaterial carries
Materials == [URI : URIs, Digest : Digests]

Names == {"", taskConfigName, pipelineConfigName, inputResultName}
Descriptors == [Name : Names, URI : URIs, Digest : Digests]

BSeq(S, n) == UNION {[1..k -> S] : k \in 0..n}

---------------------------------------------------------------------------
(* v1.ResourceDescriptor and its JSON encoding.                            *)

ResourceDescriptor(name, uri, digest) == [Name |-> name, URI |-> uri, Digest |-> digest]

\* encoding/json writes the keys of a map in sorted order
sortedAlgorithms == <<"sha1", "sha256">>

RECURSIVE marshalDigest(_, _)
marshalDigest(digest, i) ==
    IF i > Len(sortedAlgorithms) THEN <<>>
    ELSE LET a == sortedAlgorithms[i] IN
         (IF a \in DOMAIN digest THEN <<<<a, digest[a]>>>> ELSE <<>>)
            \o marshalDigest(digest, i + 1)

\* json.Marshal of a v1.ResourceDescriptor, as the sequence of the members it
\* writes: every field is `omitempty`, so an empty string and an empty (or nil)
\* map write nothing. No field of the three can fail to encode. Strings are
\* valid UTF-8, as those of a Kubernetes object are, so that a string is
\* written as itself.
jsonMarshal(rd) ==
    (IF rd.URI # "" THEN <<<<"uri", rd.URI>>>> ELSE <<>>)
        \o (IF DOMAIN rd.Digest # {} THEN <<<<"digest", marshalDigest(rd.Digest, 1)>>>> ELSE <<>>)
        \o (IF rd.Name # "" THEN <<<<"name", rd.Name>>>> ELSE <<>>)

---------------------------------------------------------------------------
(* removeDuplicateResolvedDependencies                                     *)

rDepKeepsName(resolvedDependency) ==
    resolvedDependency

\* the copy of a resolved dependency that only holds its uri and digest
rDep(resolvedDependency) ==
    ResourceDescriptor("", resolvedDependency.URI, resolvedDependency.Digest)

isConfigName(name) ==
    name = taskConfigName \/ name = pipelineConfigName

dedupStepNoExemption(st, resolvedDependency) ==
    LET rd == jsonMarshal(rDep(resolvedDependency)) IN
    IF rd \in st.seen
    THEN st
    ELSE [seen |-> st.seen \cup {rd}, out |-> Append(st.out, resolvedDependency)]

dedupStepNeverSeen(st, resolvedDependency) ==
    [seen |-> st.seen, out |-> Append(st.out, resolvedDependency)]

dedupStepPrepends(st, resolvedDependency) ==
    LET rd == jsonMarshal(rDep(resolvedDependency)) IN
    IF rd \in st.seen /\ ~isConfigName(resolvedDependency.Name)
    THEN st
    ELSE [seen |-> st.seen \cup {rd}, out |-> <<resolvedDependency>> \o st.out]

dedupStepForgets(st, resolvedDependency) ==
    LET rd == jsonMarshal(rDep(resolvedDependency)) IN
    IF rd \in st.seen /\ ~isConfigName(resolvedDependency.Name)
    THEN [seen |-> st.seen \ {rd}, out |-> st.out]
    ELSE [seen |-> st.seen \cup {rd}, out |-> Append(st.out, resolvedDependency)]

\* one iteration of the loop over resolvedDependencies: st holds the map `seen`
\* (as the set of keys mapped to true) and the slice `out`
dedupStep(st, resolvedDependency) ==
    LET rd == jsonMarshal(rDep(resolvedDependency)) IN
    IF rd \in st.seen /\ ~isConfigName(resolvedDependency.Name)
    THEN st                                                    \* continue
    ELSE [seen |-> st.seen \cup {rd}, out |-> Append(st.out, resolvedDependency)]

RECURSIVE dedupLoop(_, _, _)
dedupLoop(rds, i, st) ==
    IF i > Len(rds) THEN st
    ELSE dedupLoop(rds, i + 1, dedupStep(st, rds[i]))

removeDuplicateKeepsAll(rds) ==
    [rds |-> rds, err |-> nil]

\* returns (out, err); json.Marshal cannot fail on a uri and a digest set, so
\* err is always nil
removeDuplicateResolvedDependencies(rds) ==
    [rds |-> dedupLoop(rds, 1, [seen |-> {}, out |-> <<>>]).out, err |-> nil]

---------------------------------------------------------------------------
(* The collaborators: package material and objects.PipelineRunObject.      *)
(* Step and sidecar states are kept as what the extraction makes of them:  *)
(* the materials it returns and its error.                                 *)

\* material.FromStepImages(steps) returns (materials, error)
FromStepImages(steps) == [mats |-> steps.materials, err |-> steps.err]

\* material.FromSidecarImages(sidecars) returns (materials, error)
FromSidecarImages(sidecars) == [mats |-> sidecars.materials, err |-> sidecars.err]

\* material.FromTaskParamsAndResults(ctx, tro) returns materials
FromTaskParamsAndResults(t) == t.ParamsAndResults

\* material.FromTaskResources(ctx, tro) returns materials
FromTaskResources(t) == t.Resources

\* material.FromPipelineParamsAndResults(ctx, pro, slsaconfig) returns materials
FromPipelineParamsAndResults(p) == p.ParamsAndResults

\* pro.GetTaskRunFromTask(name): the task run of the pipeline task, or nil
GetTaskRunFromTask(p, name) ==
    IF name \in DOMAIN p.taskRuns THEN p.taskRuns[name] ELSE nil

---------------------------------------------------------------------------
(* convertMaterialsToResolvedDependencies                                  *)

convertDropsDigest(mats, name) ==
    [i \in 1..Len(mats) |->
        ResourceDescriptor(IF name # "" THEN name ELSE "", mats[i].URI, emptyDigest)]

convertMaterialsToResolvedDependencies(mats, name) ==
    [i \in 1..Len(mats) |->
        ResourceDescriptor(IF name # "" THEN name ELSE "", mats[i].URI, mats[i].Digest)]

---------------------------------------------------------------------------
(* TaskRun                                                                 *)

\* the top level config, when the provenance has a RefSource
configDependency(provenance, name) ==
    IF provenance # nil /\ provenance.RefSource # nil
    THEN <<ResourceDescriptor(name, provenance.RefSource.URI, provenance.RefSource.Digest)>>
    ELSE <<>>

TaskRunReturnsPartial(t) ==
    LET config == configDependency(t.Status.Provenance, taskConfigName)
        step == FromStepImages(t.Status.Steps)
        sidecar == FromSidecarImages(t.Status.Sidecars)
    IN  IF step.err # nil THEN [rds |-> config, err |-> step.err]
        ELSE IF sidecar.err # nil
        THEN [rds |-> config \o convertMaterialsToResolvedDependencies(step.mats, ""),
              err |-> sidecar.err]
        ELSE LET images == convertMaterialsToResolvedDependencies(step.mats \o sidecar.mats, "")
                 inputs == convertMaterialsToResolvedDependencies(
                               FromTaskParamsAndResults(t), inputResultName)
                 resources == convertMaterialsToResolvedDependencies(
                               FromTaskResources(t), pipelineResourceName)
                 deduped == removeDuplicateResolvedDependencies(
                               config \o images \o inputs \o resources)
             IN  IF deduped.err # nil THEN [rds |-> nil, err |-> deduped.err]
                 ELSE [rds |-> deduped.rds, err |-> nil]

\* returns (resolvedDependencies, err)
TaskRun(t) ==
    LET config == configDependency(t.Status.Provenance, taskConfigName)
        step == FromStepImages(t.Status.Steps)
        sidecar == FromSidecarImages(t.Status.Sidecars)
    IN  IF step.err # nil THEN [rds |-> nil, err |-> step.err]
        ELSE IF sidecar.err # nil THEN [rds |-> nil, err |-> sidecar.err]
        ELSE LET images == convertMaterialsToResolvedDependencies(step.mats \o sidecar.mats, "")
                 inputs == convertMaterialsToResolvedDependencies(
                               FromTaskParamsAndResults(t), inputResultName)
                 resources == convertMaterialsToResolvedDependencies(
                               FromTaskResources(t), pipelineResourceName)
                 deduped == removeDuplicateResolvedDependencies(
                               config \o images \o inputs \o resources)
             IN  IF deduped.err # nil THEN [rds |-> nil, err |-> deduped.err]
                 ELSE [rds |-> deduped.rds, err |-> nil]

---------------------------------------------------------------------------
(* fromPipelineTask                                                        *)

pipelineTaskStepRunsIncomplete(p, acc, t) ==
    LET tr == GetTaskRunFromTask(p, t.Name) IN
    IF tr = nil
    THEN [acc EXCEPT !.log = Append(@, t.Name)]
    ELSE LET config == configDependency(tr.Status.Provenance, pipelineTaskConfigName)
             step == FromStepImages(tr.Status.Steps)
             sidecar == FromSidecarImages(tr.Status.Sidecars)
         IN  IF step.err # nil THEN [rds |-> nil, err |-> step.err, log |-> acc.log]
             ELSE IF sidecar.err # nil THEN [rds |-> nil, err |-> sidecar.err, log |-> acc.log]
             ELSE [acc EXCEPT !.rds = @ \o config
                       \o convertMaterialsToResolvedDependencies(step.mats \o sidecar.mats, "")]

pipelineTaskStepConfigLast(p, acc, t) ==
    LET tr == GetTaskRunFromTask(p, t.Name) IN
    IF tr = nil \/ tr.Status.CompletionTime = nil
    THEN [acc EXCEPT !.log = Append(@, t.Name)]
    ELSE LET config == configDependency(tr.Status.Provenance, pipelineTaskConfigName)
             step == FromStepImages(tr.Status.Steps)
             sidecar == FromSidecarImages(tr.Status.Sidecars)
         IN  IF step.err # nil THEN [rds |-> nil, err |-> step.err, log |-> acc.log]
             ELSE IF sidecar.err # nil THEN [rds |-> nil, err |-> sidecar.err, log |-> acc.log]
             ELSE [acc EXCEPT !.rds = @
                       \o convertMaterialsToResolvedDependencies(step.mats \o sidecar.mats, "")
                       \o config]

\* One pipeline task of the loop. acc holds the slice resolvedDependencies, the
\* error the loop returned with (nil while it runs) and the lines logged.
pipelineTaskStep(p, acc, t) ==
    LET tr == GetTaskRunFromTask(p, t.Name) IN
    IF tr = nil \/ tr.Status.CompletionTime = nil
    THEN [acc EXCEPT !.log = Append(@, t.Name)]                   \* continue
    ELSE LET config == configDependency(tr.Status.Provenance, pipelineTaskConfigName)
             step == FromStepImages(tr.Status.Steps)
             sidecar == FromSidecarImages(tr.Status.Sidecars)
         IN  IF step.err # nil THEN [rds |-> nil, err |-> step.err, log |-> acc.log]
             ELSE IF sidecar.err # nil THEN [rds |-> nil, err |-> sidecar.err, log |-> acc.log]
             ELSE [acc EXCEPT !.rds = @ \o config
                       \o convertMaterialsToResolvedDependencies(step.mats \o sidecar.mats, "")]

RECURSIVE pipelineTaskLoop(_, _, _, _)
pipelineTaskLoop(p, pipelineTasks, i, acc) ==
    IF i > Len(pipelineTasks) \/ acc.err # nil THEN acc
    ELSE pipelineTaskLoop(p, pipelineTasks, i + 1, pipelineTaskStep(p, acc, pipelineTasks[i]))

\* returns (resolvedDependencies, err), and the lines it logged
fromPipelineTask(p) ==
    LET pSpec == p.Status.PipelineSpec
        start == [rds |-> <<>>, err |-> nil, log |-> <<>>]
    IN  IF pSpec # nil
        THEN pipelineTaskLoop(p, pSpec.Tasks \o pSpec.Finally, 1, start)
        ELSE start

---------------------------------------------------------------------------
(* PipelineRun                                                             *)

\* returns (resolvedDependencies, err), and the lines logged
PipelineRun(p) ==
    LET config == configDependency(p.Status.Provenance, pipelineConfigName)
        tasks == fromPipelineTask(p)
    IN  IF tasks.err # nil THEN [rds |-> nil, err |-> tasks.err, log |-> tasks.log]
        ELSE LET inputs == convertMaterialsToResolvedDependencies(
                               FromPipelineParamsAndResults(p), inputResultName)
                 deduped == removeDuplicateResolvedDependencies(config \o tasks.rds \o inputs)
             IN  IF deduped.err # nil THEN [rds |-> nil, err |-> deduped.err, log |-> tasks.log]
                 ELSE [rds |-> deduped.rds, err |-> nil, log |-> tasks.log]

---------------------------------------------------------------------------
(* The arguments of TaskRun and PipelineRun.                               *)

\* most materials of a task run, over its steps, sidecars, inputs and resources
MaxMaterials == 3
\* most pipeline tasks of a pipeline, Tasks and Finally together
MaxStages == 3

a1 == [URI |-> "a", Digest |-> [a \in {"sha256"} |-> "x"]]
a2 == [URI |-> "a", Digest |-> emptyDigest]
a3 == [URI |-> "", Digest |-> [a \in {"sha256"} |-> "x"]]
\* an image no top-level reference and no input is
a4 == [URI |-> "b", Digest |-> [a \in {"sha1", "sha256"} |-> "y"]]

\* the materials of a task run, and the references and inputs of a pipeline run
Artifacts == {a1, a2, a3}

Provenances == {nil, [RefSource |-> nil]} \cup {[RefSource |-> m] : m \in Artifacts}

errSteps == [error |-> "step image"]
errSidecars == [error |-> "sidecar image"]

Cuts(n) == {c \in (0..n) \X (0..n) \X (0..n) : c[1] <= c[2] /\ c[2] <= c[3]}

TaskRunObject(all, c, p, e1, e2) ==
    [Status |-> [Provenance |-> p,
                 Steps |-> [materials |-> SubSeq(all, 1, c[1]), err |-> e1],
                 Sidecars |-> [materials |-> SubSeq(all, c[1] + 1, c[2]), err |-> e2]],
     ParamsAndResults |-> SubSeq(all, c[2] + 1, c[3]),
     Resources |-> SubSeq(all, c[3] + 1, Len(all))]

\* the task runs a pipeline task is looked up to: none, one that has not
\* completed, and completed ones
TaskRunStatuses ==
    {nil,
     [Status |-> [CompletionTime |-> nil, Provenance |-> [RefSource |-> a1],
                  Steps |-> [materials |-> <<a2>>, err |-> errSteps],
                  Sidecars |-> [materials |-> <<a3>>, err |-> nil]]],
     [Status |-> [CompletionTime |-> [time |-> "t"], Provenance |-> [RefSource |-> a1],
                  Steps |-> [materials |-> <<a2>>, err |-> nil],
                  Sidecars |-> [materials |-> <<a4>>, err |-> nil]]],
     [Status |-> [CompletionTime |-> [time |-> "t"], Provenance |-> nil,
                  Steps |-> [materials |-> <<a4, a1>>, err |-> nil],
                  Sidecars |-> [materials |-> <<>>, err |-> nil]]],
     [Status |-> [CompletionTime |-> [time |-> "t"], Provenance |-> [RefSource |-> a2],
                  Steps |-> [materials |-> <<>>, err |-> errSteps],
                  Sidecars |-> [materials |-> <<a1>>, err |-> nil]]],
     [Status |-> [CompletionTime |-> [time |-> "t"], Provenance |-> [RefSource |-> nil],
                  Steps |-> [materials |-> <<a3>>, err |-> nil],
                  Sidecars |-> [materials |-> <<>>, err |-> errSidecars]]],
     [Status |-> [CompletionTime |-> [time |-> "t"], Provenance |-> [RefSource |-> a3],
                  Steps |-> [materials |-> <<>>, err |-> nil],
                  Sidecars |-> [materials |-> <<a2, a3>>, err |-> nil]]]}

\* pipeline tasks are named 1, 2, ...: the first k are Tasks, the rest Finally
PipelineTasks(from, to) == [i \in 1..(to - from + 1) |-> [Name |-> from + i - 1]]

PipelineRunObject(p, pSpec, trs, inputs) ==
    [Status |-> [Provenance |-> p, PipelineSpec |-> pSpec],
     taskRuns |-> trs,
     ParamsAndResults |-> inputs]

PipelineInputs == {<<>>} \cup {<<m>> : m \in Artifacts}

---------------------------------------------------------------------------
(* The caller of TaskRun and of PipelineRun.                               *)

InitTaskRun ==
    /\ \E all \in BSeq(Artifacts, MaxMaterials) :
       \E c \in Cuts(Len(all)), p \in Provenances,
          e1 \in {nil, errSteps}, e2 \in {nil, errSidecars} :
            tro = TaskRunObject(all, c, p, e1, e2)
    /\ pro = unused

InitPipelineRun ==
    /\ \/ \E n \in 0..MaxStages :
          \E trs \in [1..n -> TaskRunStatuses], k \in 0..n,
             p \in Provenances, inputs \in PipelineInputs :
               pro = PipelineRunObject(
                         p, [Tasks |-> PipelineTasks(1, k), Finally |-> PipelineTasks(k + 1, n)],
                         trs, inputs)
       \/ \E p \in Provenances, inputs \in PipelineInputs :
               pro = PipelineRunObject(p, nil, <<>>, inputs)
    /\ tro = unused

InitResolve ==
    /\ pc = "start"
    /\ (InitTaskRun \/ InitPipelineRun)
    /\ ret = unused
    /\ resolvedDependencies = unused
    /\ out = unused
    /\ again = unused

CallTaskRun ==
    /\ pc = "start"
    /\ tro # unused
    /\ ret' = TaskRun(tro)
    /\ pc' = "returned"
    /\ UNCHANGED <<resolvedDependencies, out, again, tro, pro>>

CallPipelineRun ==
    /\ pc = "start"
    /\ pro # unused
    /\ ret' = PipelineRun(pro)
    /\ pc' = "returned"
    /\ UNCHANGED <<resolvedDependencies, out, again, tro, pro>>

NextResolve == CallTaskRun \/ CallPipelineRun

SpecResolve == InitResolve /\ [][NextResolve]_vars

---------------------------------------------------------------------------
(* The caller of removeDuplicateResolvedDependencies.                      *)

InitDedup ==
    /\ pc = "start"
    /\ resolvedDependencies \in BSeq(Descriptors, MaxLen)
    /\ out = unused
    /\ again = unused
    /\ tro = unused
    /\ pro = unused
    /\ ret = unused

Deduplicate ==
    /\ pc = "start"
    /\ out' = removeDuplicateResolvedDependencies(resolvedDependencies)
    /\ pc' = "once"
    /\ UNCHANGED <<resolvedDependencies, again, tro, pro, ret>>

DeduplicateAgain ==
    /\ pc = "once"
    /\ out.err = nil
    /\ again' = removeDuplicateResolvedDependencies(out.rds)
    /\ pc' = "twice"
    /\ UNCHANGED <<resolvedDependencies, out, tro, pro, ret>>

NextDedup == Deduplicate \/ DeduplicateAgain

SpecDedup == InitDedup /\ [][NextDedup]_vars

---------------------------------------------------------------------------
(* Properties of removeDuplicateResolvedDependencies.                      *)

HasConfigName(rd) == rd.Name \in {"task", "pipeline"}
HasOtherName(rd) == rd.Name \notin {"task", "pipeline"}
SameIdentity(a, b) == a.URI = b.URI /\ a.Digest = b.Digest

\* the entries of s at the positions in I, in the order of s
RECURSIVE AtPositions(_, _, _)
AtPositions(s, I, i) ==
    IF i > Len(s) THEN <<>>
    ELSE (IF i \in I THEN <<s[i]>> ELSE <<>>) \o AtPositions(s, I, i + 1)

\* a is b with some entries dropped
RECURSIVE IsSubsequence(_, _)
IsSubsequence(a, b) ==
    IF a = <<>> THEN TRUE
    ELSE IF b = <<>> THEN FALSE
    ELSE IF Head(a) = Head(b) THEN IsSubsequence(Tail(a), Tail(b))
    ELSE IsSubsequence(a, Tail(b))

\* positions of s no earlier position has the (URI, Digest) of
FirstOccurrences(s) ==
    {i \in 1..Len(s) : \A j \in 1..(i - 1) : ~SameIdentity(s[j], s[i])}

Deduplicated == pc \in {"once", "twice"}

\* C1: every entry named "task" or "pipeline" is in the output, whatever
\* precedes it: the output's entries of these names are the input's, one for one.
C1_ProtectedRetention ==
    Deduplicated =>
        /\ out.err = nil
        /\ SelectSeq(out.rds, HasConfigName) = SelectSeq(resolvedDependencies, HasConfigName)

C1_Witness ==
    /\ Deduplicated
    /\ \E i, j, k \in 1..Len(resolvedDependencies) :
          /\ i < j /\ j < k
          /\ HasConfigName(resolvedDependencies[k])
          /\ HasOtherName(resolvedDependencies[i])
          /\ SameIdentity(resolvedDependencies[i], resolvedDependencies[k])
          /\ SameIdentity(resolvedDependencies[j], resolvedDependencies[k])
          /\ out.rds[Len(out.rds)] = resolvedDependencies[k]

\* the input [{Name: "task", URI: a, Digest: x}, {URI: a, Digest: x}]
C2_Example ==
    <<[Name |-> "task", URI |-> "a", Digest |-> [a \in {"sha256"} |-> "x"]],
      [Name |-> "", URI |-> "a", Digest |-> [a \in {"sha256"} |-> "x"]]>>

\* C2: an entry named neither "task" nor "pipeline" is in the output exactly
\* when no earlier entry, of whatever name, has its (URI, Digest); and
\* [{task, a, x}, {a, x}] gives its first entry alone.
C2_NonProtectedSuppression ==
    Deduplicated =>
        /\ SelectSeq(out.rds, HasOtherName) =
              AtPositions(resolvedDependencies,
                          {i \in FirstOccurrences(resolvedDependencies) :
                              HasOtherName(resolvedDependencies[i])}, 1)
        /\ resolvedDependencies = C2_Example => out.rds = <<C2_Example[1]>>

C2_Witness ==
    /\ Deduplicated
    /\ \E i, j, k \in 1..Len(resolvedDependencies) :
          /\ i < j /\ j < k
          /\ resolvedDependencies[i].Name = "task"
          /\ resolvedDependencies[j].Name = "inputs/result"
          /\ resolvedDependencies[k].Name = ""
          /\ SameIdentity(resolvedDependencies[i], resolvedDependencies[j])
          /\ ~SameIdentity(resolvedDependencies[i], resolvedDependencies[k])
          /\ out.rds = <<resolvedDependencies[i], resolvedDependencies[k]>>

\* C3: two entries of the output with the same (URI, Digest) are never both
\* named otherwise than "task" or "pipeline".
C3_NoUnprotectedDuplicates ==
    Deduplicated =>
        \A i, j \in 1..Len(out.rds) :
            (i # j /\ SameIdentity(out.rds[i], out.rds[j]))
                => (HasConfigName(out.rds[i]) \/ HasConfigName(out.rds[j]))

C3_Witness ==
    /\ Deduplicated
    /\ Len(out.rds) = 2
    /\ SameIdentity(out.rds[1], out.rds[2])
    /\ HasOtherName(out.rds[1])
    /\ \E i, j \in 1..Len(resolvedDependencies) :
          /\ i < j
          /\ HasOtherName(resolvedDependencies[i])
          /\ HasOtherName(resolvedDependencies[j])
          /\ SameIdentity(resolvedDependencies[i], resolvedDependencies[j])

\* C4: the output is the input with entries dropped, and the first
\* occurrences of the input's (URI, Digest) pairs are all in it, in their order.
C4_OrderPreservation ==
    Deduplicated =>
        /\ IsSubsequence(out.rds, resolvedDependencies)
        /\ IsSubsequence(AtPositions(resolvedDependencies,
                                     FirstOccurrences(resolvedDependencies), 1),
                         out.rds)

C4_Witness ==
    /\ Deduplicated
    /\ Len(resolvedDependencies) = 3
    /\ Cardinality(FirstOccurrences(resolvedDependencies)) = 2
    /\ SameIdentity(resolvedDependencies[1], resolvedDependencies[3])
    /\ out.rds = SubSeq(resolvedDependencies, 1, 2)

\* C5: removeDuplicateResolvedDependencies returns its own output unchanged.
C5_Idempotence ==
    pc = "twice" => again = out

C5_Witness ==
    /\ pc = "twice"
    /\ Len(out.rds) = 2
    /\ Len(resolvedDependencies) = 3
    /\ \E i, j \in 1..3 :
          /\ i < j
          /\ SameIdentity(resolvedDependencies[i], resolvedDependencies[j])
          /\ HasOtherName(resolvedDependencies[i])
          /\ HasConfigName(resolvedDependencies[j])

---------------------------------------------------------------------------
(* Properties of TaskRun and PipelineRun.                                  *)

TaskRunReturned == pc = "returned" /\ tro # unused
PipelineRunReturned == pc = "returned" /\ pro # unused

\* the entries made of materials: their URI and Digest under the given name
Tagged(mats, name) ==
    [i \in 1..Len(mats) |-> [Name |-> name, URI |-> mats[i].URI, Digest |-> mats[i].Digest]]

\* the entry made of a top-level reference, if there is one
Reference(provenance, name) ==
    IF provenance = nil THEN <<>>
    ELSE IF provenance.RefSource = nil THEN <<>>
    ELSE Tagged(<<provenance.RefSource>>, name)

\* the declared stages: regular ones, then always-run ones
Declared(p) ==
    IF p.Status.PipelineSpec = nil THEN <<>>
    ELSE p.Status.PipelineSpec.Tasks \o p.Status.PipelineSpec.Finally

\* the declared stage has a sub-execution, and it has a completion time
IsCompleted(p, t) ==
    /\ t.Name \in DOMAIN p.taskRuns
    /\ p.taskRuns[t.Name] # nil
    /\ p.taskRuns[t.Name].Status.CompletionTime # nil

IsSkipped(p, t) == ~IsCompleted(p, t)

\* the completed stage's image extraction fails
Fails(p, t) ==
    /\ IsCompleted(p, t)
    /\ \/ p.taskRuns[t.Name].Status.Steps.err # nil
       \/ p.taskRuns[t.Name].Status.Sidecars.err # nil

\* what the stages from position i on contribute: for each completed one its
\* reference, its step images, its sidecar images
RECURSIVE Contributions(_, _, _)
Contributions(p, stages, i) ==
    IF i > Len(stages) THEN <<>>
    ELSE (IF IsCompleted(p, stages[i])
          THEN LET st == p.taskRuns[stages[i].Name].Status IN
               Reference(st.Provenance, "pipelineTask")
                   \o Tagged(st.Steps.materials, "")
                   \o Tagged(st.Sidecars.materials, "")
          ELSE <<>>)
         \o Contributions(p, stages, i + 1)

\* the names of the skipped stages among the first n
RECURSIVE SkippedNames(_, _, _)
SkippedNames(p, stages, n) ==
    IF n = 0 THEN <<>>
    ELSE SkippedNames(p, stages, n - 1)
            \o (IF IsSkipped(p, stages[n]) THEN <<stages[n].Name>> ELSE <<>>)

\* the pipeline run with its skipped stages not declared
WithoutSkipped(p) ==
    IF p.Status.PipelineSpec = nil THEN p
    ELSE LET Done(t) == IsCompleted(p, t) IN
         [p EXCEPT !.Status.PipelineSpec =
             [Tasks |-> SelectSeq(p.Status.PipelineSpec.Tasks, Done),
              Finally |-> SelectSeq(p.Status.PipelineSpec.Finally, Done)]]

\* C6: a declared stage with no sub-execution, or with one that has no
\* completion time, contributes nothing and fails nothing, whatever that
\* sub-execution holds: PipelineRun returns what it returns with the skipped
\* stages not declared, and with every stage skipped it returns, without error,
\* the reference and the inputs alone.
C6_SkippedStage ==
    PipelineRunReturned =>
        /\ ret.rds = PipelineRun(WithoutSkipped(pro)).rds
        /\ ret.err = PipelineRun(WithoutSkipped(pro)).err
        /\ (\A i \in 1..Len(Declared(pro)) : IsSkipped(pro, Declared(pro)[i]))
              => /\ ret.err = nil
                 /\ \A i \in 1..Len(ret.rds) : ret.rds[i].Name \in {"pipeline", "inputs/result"}
                 /\ ret.log = [i \in 1..Len(Declared(pro)) |-> Declared(pro)[i].Name]

C6_Witness ==
    /\ PipelineRunReturned
    /\ Len(Declared(pro)) = 3
    /\ pro.taskRuns[1] = nil
    /\ pro.taskRuns[2] # nil
    /\ pro.taskRuns[2].Status.CompletionTime = nil
    /\ pro.taskRuns[2].Status.Steps.err # nil
    /\ pro.taskRuns[2].Status.Provenance # nil
    /\ IsCompleted(pro, Declared(pro)[3])
    /\ ret.err = nil
    /\ ret.log = <<1, 2>>
    /\ \E i \in 1..Len(ret.rds) : ret.rds[i].Name = "pipelineTask"

C7_Concatenation ==
    Reference(tro.Status.Provenance, "task")
        \o Tagged(tro.Status.Steps.materials, "")
        \o Tagged(tro.Status.Sidecars.materials, "")
        \o Tagged(tro.ParamsAndResults, "inputs/result")
        \o Tagged(tro.Resources, "pipelineResource")

\* C7: with no extraction failing, TaskRun returns the deduplicated
\* concatenation of the "task" reference, the step images, the sidecar images,
\* the inputs named "inputs/result" and the resources named "pipelineResource",
\* each with its material's URI and Digest; a reference present comes first.
C7_TaskRunOrder ==
    (TaskRunReturned /\ tro.Status.Steps.err = nil /\ tro.Status.Sidecars.err = nil) =>
        /\ ret.err = nil
        /\ ret.rds = removeDuplicateResolvedDependencies(C7_Concatenation).rds
        /\ Reference(tro.Status.Provenance, "task") # <<>>
              => ret.rds[1] = Reference(tro.Status.Provenance, "task")[1]

C7_Witness ==
    /\ TaskRunReturned
    /\ ret.err = nil
    /\ Len(ret.rds) = 3
    /\ ret.rds[1].Name = "task"
    /\ ret.rds[2].Name = ""
    /\ ret.rds[3].Name = "pipelineResource"
    /\ Len(tro.Status.Steps.materials) = 1
    /\ Len(tro.Status.Sidecars.materials) = 1
    /\ Len(tro.ParamsAndResults) = 0
    /\ Len(tro.Resources) = 1

C8_Concatenation ==
    Reference(pro.Status.Provenance, "pipeline")
        \o (IF pro.Status.PipelineSpec = nil THEN <<>>
            ELSE Contributions(pro, pro.Status.PipelineSpec.Tasks, 1)
                    \o Contributions(pro, pro.Status.PipelineSpec.Finally, 1))
        \o Tagged(pro.ParamsAndResults, "inputs/result")

\* C8: with no extraction failing, PipelineRun returns the deduplicated
\* concatenation of the "pipeline" reference, then for each completed stage
\* (regular ones, then always-run ones, in declared order) its "pipelineTask"
\* reference, step images and sidecar images, then the inputs named
\* "inputs/result".
C8_PipelineRunOrder ==
    (PipelineRunReturned /\ \A i \in 1..Len(Declared(pro)) : ~Fails(pro, Declared(pro)[i])) =>
        /\ ret.err = nil
        /\ ret.rds = removeDuplicateResolvedDependencies(C8_Concatenation).rds

C8_Witness ==
    /\ PipelineRunReturned
    /\ ret.err = nil
    /\ pro.Status.PipelineSpec # nil
    /\ Len(pro.Status.PipelineSpec.Tasks) = 2
    /\ Len(pro.Status.PipelineSpec.Finally) = 1
    /\ \A i \in 1..3 : IsCompleted(pro, Declared(pro)[i])
    /\ pro.taskRuns[1] # pro.taskRuns[2]
    /\ Len(ret.rds) = 4
    /\ ret.rds[1].Name = "pipeline"
    /\ ret.rds[2].Name = "pipelineTask"
    /\ ret.rds[3].Name = ""
    /\ ret.rds[4].Name = "inputs/result"

\* the first declared stage whose extraction fails
FirstFailure(p) ==
    CHOOSE i \in 1..Len(Declared(p)) :
        /\ Fails(p, Declared(p)[i])
        /\ \A j \in 1..(i - 1) : ~Fails(p, Declared(p)[j])

ExtractionError(status) ==
    IF status.Steps.err # nil THEN status.Steps.err ELSE status.Sidecars.err

\* C9: when step-image or sidecar-image extraction fails, in TaskRun or for a
\* completed sub-execution of PipelineRun, the resolver returns that error and
\* a nil list, and PipelineRun processes no stage after the failing one.
C9_NoPartialResult ==
    /\ (TaskRunReturned /\ (tro.Status.Steps.err # nil \/ tro.Status.Sidecars.err # nil))
          => /\ ret.rds = nil
             /\ ret.err = ExtractionError(tro.Status)
    /\ (PipelineRunReturned /\ \E i \in 1..Len(Declared(pro)) : Fails(pro, Declared(pro)[i]))
          => /\ ret.rds = nil
             /\ ret.err = ExtractionError(
                              pro.taskRuns[Declared(pro)[FirstFailure(pro)].Name].Status)
             /\ ret.log = SkippedNames(pro, Declared(pro), FirstFailure(pro) - 1)

C9_Witness ==
    /\ PipelineRunReturned
    /\ pro.Status.Provenance # nil
    /\ Len(Declared(pro)) = 3
    /\ IsCompleted(pro, Declared(pro)[1])
    /\ ~Fails(pro, Declared(pro)[1])
    /\ Fails(pro, Declared(pro)[2])
    /\ pro.taskRuns[2].Status.Steps.err = nil
    /\ IsSkipped(pro, Declared(pro)[3])
    /\ ret.rds = nil
    /\ ret.err = [error |-> "sidecar image"]
    /\ ret.log = <<>>

\* C10: in what TaskRun and PipelineRun return, an entry named "task" or
\* "pipeline" is the first one, so no two entries have the same (URI, Digest),
\* and no later entry has the (URI, Digest) of the top-level reference.
C10_DistinctIdentities ==
    (pc = "returned" /\ ret.err = nil) =>
        /\ \A i \in 1..Len(ret.rds) : HasConfigName(ret.rds[i]) => i = 1
        /\ \A i, j \in 1..Len(ret.rds) : SameIdentity(ret.rds[i], ret.rds[j]) => i = j
        /\ LET top == IF tro # unused THEN Reference(tro.Status.Provenance, "task")
                      ELSE Reference(pro.Status.Provenance, "pipeline")
           IN  top # <<>> =>
                   /\ ret.rds[1] = top[1]
                   /\ \A i \in 2..Len(ret.rds) : ~SameIdentity(ret.rds[i], top[1])

C10_Witness ==
    /\ PipelineRunReturned
    /\ ret.err = nil
    /\ pro.Status.Provenance = [RefSource |-> a1]
    /\ Len(Declared(pro)) = 1
    /\ IsCompleted(pro, Declared(pro)[1])
    /\ pro.taskRuns[1].Status.Provenance = [RefSource |-> a1]
    /\ pro.ParamsAndResults = <<a1>>
    /\ Len(ret.rds) = 3
    /\ \A i \in 1..3 : ret.rds[i].Name \in {"pipeline", ""}

====
